---- MODULE Spec2Model ----
(***************************************************************************)
(* CloudDrive_Lab, backend/file_manager.py: the FileManager keeps a flat   *)
(* upload directory and a side table of per-file metadata (uploader, last  *)
(* editor, timestamps) that is rewritten in full to metadata.json after    *)
(* every mutation.                                                         *)
(*                                                                         *)
(* A filename is a sequence of one-character strings, so that the stem,    *)
(* the suffix and the "stem (k).ext" names are computed as pathlib and the *)
(* f-strings compute them.  Filenames are non-empty single path components *)
(* (no separators, no trailing dot).  The directory is a function from the *)
(* names present to file contents; the metadata document is one of its     *)
(* entries, exactly as on disk.                                            *)
(*                                                                         *)
(* backend/database.py: SimpleDatabase keeps the users table; its rows and *)
(* the calls that threads have in flight are the last two variables.       *)
(***************************************************************************)
EXTENDS Integers, Sequences, FiniteSets, TLC

VARIABLES dir, metadata, clock, last, calls, users

vars == <<dir, metadata, clock, last, calls, users>>

----------------------------------------------------------------------------
(* Bounds and input domains *)

MaxClock == 3

Users == {"alice", "bob"}

Payloads == {"", "x"}

MetadataName == <<"m","e","t","a","d","a","t","a",".","j","s","o","n">>

NameAT == <<"a", ".", "t">>

NameA1T == <<"a", " ", "(", "1", ")", ".", "t">>

NameA == <<"a">>

ReqNames == {NameAT, MetadataName}

Bases == {<<"a">>, <<"a", " ", "(", "1", ")">>}

----------------------------------------------------------------------------
(* Values *)

NoMap == [n \in {} |-> 0]

(* What a file holds: a caller's bytes, or the text json.dump writes for a *)
(* mapping (which no payload of Payloads equals).                          *)
Bytes(p) == [kind |-> "bytes", data |-> p, map |-> NoMap]

Json(m) == [kind |-> "json", data |-> "", map |-> m]

None == [kind |-> "none", data |-> "", map |-> NoMap]

NoName == <<>>

Put(f, k, v) == [x \in (DOMAIN f) \cup {k} |-> IF x = k THEN v ELSE f[x]]

Drop(f, k) == [x \in (DOMAIN f) \ {k} |-> f[x]]

FileRecord(by, editor, created, modified) ==
    [uploaded_by |-> by, last_modified_by |-> editor,
     created_at |-> created, modified_at |-> modified]

(* The directory: open(path, 'wb'), os.rename and unlink.  A directory     *)
(* entry carries the content and the stat times (POSIX: a write sets       *)
(* st_mtime and st_ctime, a rename sets st_ctime).                         *)
WriteFile(d, name, content, t) ==
    Put(d, name, [content |-> content, mtime |-> t, ctime |-> t])

MoveFile(d, old, new, t) ==
    Put(Drop(d, old), new, [d[old] EXCEPT !.ctime = t])

----------------------------------------------------------------------------
(* pathlib: PurePath.suffix and PurePath.stem of a single component *)

RECURSIVE rfind(_, _)
rfind(name, i) ==
    IF i = 0 THEN 0
    ELSE IF name[i] = "." THEN i ELSE rfind(name, i - 1)

suffix_from_last_dot(name) ==
    LET i == rfind(name, Len(name))
    IN  IF 0 < i THEN SubSeq(name, i, Len(name)) ELSE <<>>

suffix(name) ==
    LET i == rfind(name, Len(name))
    IN  IF 1 < i /\ i < Len(name) THEN SubSeq(name, i, Len(name)) ELSE <<>>

stem(name) ==
    LET i == rfind(name, Len(name))
    IN  IF 1 < i /\ i < Len(name) THEN SubSeq(name, 1, i - 1) ELSE name

DigitChars == <<"0", "1", "2", "3", "4", "5", "6", "7", "8", "9">>

RECURSIVE str(_)
str(n) ==
    IF n < 10 THEN <<DigitChars[n + 1]>>
    ELSE str(n \div 10) \o <<DigitChars[(n % 10) + 1]>>

exists(d, name) == name \in DOMAIN d

----------------------------------------------------------------------------
(* FileManager *)

_load_metadata(d) ==
    IF exists(d, MetadataName)
    THEN IF d[MetadataName].content.kind = "json"
         THEN d[MetadataName].content.map ELSE NoMap
    ELSE NoMap

(* Bytes that are not UTF-8 text: open(..., 'r') cannot decode them. *)
NotText == "\\xff"

(* FileManager(base_upload_dir) over a directory that exists: json.load    *)
(* raises UnicodeDecodeError on bytes that are not text, and the handler   *)
(* of _load_metadata is for json.JSONDecodeError only.                     *)
__init__(d) ==
    IF exists(d, MetadataName) /\ d[MetadataName].content.data = NotText
    THEN [raised |-> TRUE, metadata |-> NoMap]
    ELSE [raised |-> FALSE, metadata |-> _load_metadata(d)]

_save_metadata(d, m, t) == WriteFile(d, MetadataName, Json(m), t)

RECURSIVE scan(_, _, _, _)
scan(d, st, sfx, counter) ==
    LET new_filename == st \o <<" ", "(">> \o str(counter) \o <<")">> \o sfx
    IN  IF ~exists(d, new_filename) THEN new_filename
        ELSE scan(d, st, sfx, counter + 1)

_get_unique_filename_as_requested(d, filename) == filename

_get_unique_filename_from_zero(d, filename) ==
    IF ~exists(d, filename) THEN filename
    ELSE scan(d, stem(filename), suffix(filename), 0)

_get_unique_filename(d, filename) ==
    IF ~exists(d, filename) THEN filename
    ELSE scan(d, stem(filename), suffix(filename), 1)

(* The store as a value, for the operations that sync_folder chains. *)
Store(d, m, c) == [dir |-> d, metadata |-> m, clock |-> c]

save_file_keyed_by_request(s, username, file_content, filename) ==
    LET actual_filename == _get_unique_filename(s.dir, filename)
        now == s.clock + 1
        written == WriteFile(s.dir, actual_filename, Bytes(file_content), now)
        meta == Put(s.metadata, filename,
                    FileRecord(username, username, now, now))
    IN  [dir |-> _save_metadata(written, meta, now), metadata |-> meta,
         clock |-> now, ok |-> TRUE, name |-> actual_filename]

save_file(s, username, file_content, filename) ==
    LET actual_filename == _get_unique_filename(s.dir, filename)
        now == s.clock + 1
        written == WriteFile(s.dir, actual_filename, Bytes(file_content), now)
        meta == Put(s.metadata, actual_filename,
                    FileRecord(username, username, now, now))
    IN  [dir |-> _save_metadata(written, meta, now), metadata |-> meta,
         clock |-> now, ok |-> TRUE, name |-> actual_filename]

(* save_file from the write of the file on, for a name chosen before *)
save_file_write(s, username, file_content, actual_filename) ==
    LET now == s.clock + 1
        written == WriteFile(s.dir, actual_filename, Bytes(file_content), now)
        meta == Put(s.metadata, actual_filename,
                    FileRecord(username, username, now, now))
    IN  [dir |-> _save_metadata(written, meta, now), metadata |-> meta,
         clock |-> now, ok |-> TRUE, name |-> actual_filename]

get_file_content(d, filename) ==
    IF exists(d, filename) THEN d[filename].content ELSE None

update_file_content_creating(s, username, filename, file_content) ==
    LET now == s.clock + 1
        written == WriteFile(s.dir, filename, Bytes(file_content), now)
    IN  IF filename \in DOMAIN s.metadata
        THEN LET meta == [s.metadata EXCEPT
                              ![filename].last_modified_by = username,
                              ![filename].modified_at = now]
             IN  [dir |-> _save_metadata(written, meta, now),
                  metadata |-> meta, clock |-> now, ok |-> TRUE]
        ELSE [dir |-> written, metadata |-> s.metadata, clock |-> now,
              ok |-> FALSE]

update_file_content(s, username, filename, file_content) ==
    IF ~exists(s.dir, filename)
    THEN [dir |-> s.dir, metadata |-> s.metadata, clock |-> s.clock, ok |-> FALSE]
    ELSE LET now == s.clock + 1
             written == WriteFile(s.dir, filename, Bytes(file_content), now)
         IN  IF filename \in DOMAIN s.metadata
             THEN LET meta == [s.metadata EXCEPT
                                   ![filename].last_modified_by = username,
                                   ![filename].modified_at = now]
                  IN  [dir |-> _save_metadata(written, meta, now),
                       metadata |-> meta, clock |-> now, ok |-> TRUE]
             ELSE [dir |-> written, metadata |-> s.metadata, clock |-> now,
                   ok |-> FALSE]

SourceNotFound == "Source file not found."

NewNameExists == "A file with the new name already exists."

rename_file_touching(s, old_filename, new_filename_base, username) ==
    LET extension == suffix(old_filename)
        new_filename == new_filename_base \o extension
        same == [dir |-> s.dir, metadata |-> s.metadata, clock |-> s.clock]
        now == s.clock + 1
    IN  IF ~exists(s.dir, old_filename)
        THEN same @@ [ok |-> FALSE, name |-> NoName, msg |-> SourceNotFound]
        ELSE IF old_filename # new_filename /\ exists(s.dir, new_filename)
        THEN same @@ [ok |-> FALSE, name |-> NoName, msg |-> NewNameExists]
        ELSE LET moved == MoveFile(s.dir, old_filename, new_filename, now)
             IN  IF old_filename \in DOMAIN s.metadata
                 THEN LET file_meta == [s.metadata[old_filename] EXCEPT
                                            !.last_modified_by = username,
                                            !.modified_at = now]
                          meta == Put(Drop(s.metadata, old_filename),
                                      new_filename, file_meta)
                      IN  [dir |-> _save_metadata(moved, meta, now),
                           metadata |-> meta, clock |-> now, ok |-> TRUE,
                           name |-> new_filename, msg |-> ""]
                 ELSE [dir |-> moved, metadata |-> s.metadata, clock |-> now,
                       ok |-> TRUE, name |-> new_filename, msg |-> ""]

rename_file_recording(s, old_filename, new_filename_base, username) ==
    LET extension == suffix(old_filename)
        new_filename == new_filename_base \o extension
        same == [dir |-> s.dir, metadata |-> s.metadata, clock |-> s.clock]
    IN  IF ~exists(s.dir, old_filename)
        THEN same @@ [ok |-> FALSE, name |-> NoName, msg |-> SourceNotFound]
        ELSE IF old_filename = new_filename
        THEN same @@ [ok |-> TRUE, name |-> new_filename, msg |-> ""]
        ELSE IF exists(s.dir, new_filename)
        THEN same @@ [ok |-> FALSE, name |-> NoName, msg |-> NewNameExists]
        ELSE LET now == s.clock + 1
                 moved == MoveFile(s.dir, old_filename, new_filename, now)
                 file_meta == IF old_filename \in DOMAIN s.metadata
                              THEN [s.metadata[old_filename] EXCEPT
                                        !.last_modified_by = username,
                                        !.modified_at = now]
                              ELSE FileRecord(username, username, now, now)
                 meta == Put(Drop(s.metadata, old_filename),
                             new_filename, file_meta)
             IN  [dir |-> _save_metadata(moved, meta, now),
                  metadata |-> meta, clock |-> now, ok |-> TRUE,
                  name |-> new_filename, msg |-> ""]

rename_file_fresh_record(s, old_filename, new_filename_base, username) ==
    LET extension == suffix(old_filename)
        new_filename == new_filename_base \o extension
        same == [dir |-> s.dir, metadata |-> s.metadata, clock |-> s.clock]
    IN  IF ~exists(s.dir, old_filename)
        THEN same @@ [ok |-> FALSE, name |-> NoName, msg |-> SourceNotFound]
        ELSE IF old_filename = new_filename
        THEN same @@ [ok |-> TRUE, name |-> new_filename, msg |-> ""]
        ELSE IF exists(s.dir, new_filename)
        THEN same @@ [ok |-> FALSE, name |-> NoName, msg |-> NewNameExists]
        ELSE LET now == s.clock + 1
                 moved == MoveFile(s.dir, old_filename, new_filename, now)
                 meta == Put(Drop(s.metadata, old_filename), new_filename,
                             FileRecord(username, username, now, now))
             IN  IF old_filename \in DOMAIN s.metadata
                 THEN [dir |-> _save_metadata(moved, meta, now),
                       metadata |-> meta, clock |-> now, ok |-> TRUE,
                       name |-> new_filename, msg |-> ""]
                 ELSE [dir |-> moved, metadata |-> s.metadata, clock |-> now,
                       ok |-> TRUE, name |-> new_filename, msg |-> ""]

rename_file_overwriting(s, old_filename, new_filename_base, username) ==
    LET extension == suffix(old_filename)
        new_filename == new_filename_base \o extension
        same == [dir |-> s.dir, metadata |-> s.metadata, clock |-> s.clock]
    IN  IF ~exists(s.dir, old_filename)
        THEN same @@ [ok |-> FALSE, name |-> NoName, msg |-> SourceNotFound]
        ELSE IF old_filename = new_filename
        THEN same @@ [ok |-> TRUE, name |-> new_filename, msg |-> ""]
        ELSE LET now == s.clock + 1
                 moved == MoveFile(s.dir, old_filename, new_filename, now)
             IN  IF old_filename \in DOMAIN s.metadata
                 THEN LET file_meta == [s.metadata[old_filename] EXCEPT
                                            !.last_modified_by = username,
                                            !.modified_at = now]
                          meta == Put(Drop(s.metadata, old_filename),
                                      new_filename, file_meta)
                      IN  [dir |-> _save_metadata(moved, meta, now),
                           metadata |-> meta, clock |-> now, ok |-> TRUE,
                           name |-> new_filename, msg |-> ""]
                 ELSE [dir |-> moved, metadata |-> s.metadata, clock |-> now,
                       ok |-> TRUE, name |-> new_filename, msg |-> ""]

rename_file(s, old_filename, new_filename_base, username) ==
    LET extension == suffix(old_filename)
        new_filename == new_filename_base \o extension
        same == [dir |-> s.dir, metadata |-> s.metadata, clock |-> s.clock]
    IN  IF ~exists(s.dir, old_filename)
        THEN same @@ [ok |-> FALSE, name |-> NoName, msg |-> SourceNotFound]
        ELSE IF old_filename = new_filename
        THEN same @@ [ok |-> TRUE, name |-> new_filename, msg |-> ""]
        ELSE IF exists(s.dir, new_filename)
        THEN same @@ [ok |-> FALSE, name |-> NoName, msg |-> NewNameExists]
        ELSE LET now == s.clock + 1
                 moved == MoveFile(s.dir, old_filename, new_filename, now)
             IN  IF old_filename \in DOMAIN s.metadata
                 THEN LET file_meta == [s.metadata[old_filename] EXCEPT
                                            !.last_modified_by = username,
                                            !.modified_at = now]
                          meta == Put(Drop(s.metadata, old_filename),
                                      new_filename, file_meta)
                      IN  [dir |-> _save_metadata(moved, meta, now),
                           metadata |-> meta, clock |-> now, ok |-> TRUE,
                           name |-> new_filename, msg |-> ""]
                 ELSE [dir |-> moved, metadata |-> s.metadata, clock |-> now,
                       ok |-> TRUE, name |-> new_filename, msg |-> ""]

delete_file(s, filename) ==
    IF exists(s.dir, filename)
    THEN LET removed == Drop(s.dir, filename)
         IN  IF filename \in DOMAIN s.metadata
             THEN LET meta == Drop(s.metadata, filename)
                  IN  [dir |-> _save_metadata(removed, meta, s.clock + 1),
                       metadata |-> meta, ok |-> TRUE]
             ELSE [dir |-> removed, metadata |-> s.metadata, ok |-> TRUE]
    ELSE [dir |-> s.dir, metadata |-> s.metadata, ok |-> FALSE]

list_files_from_records(d, m) ==
    { [name |-> n,
       created_at |-> m[n].created_at,
       modified_at |-> m[n].modified_at,
       uploaded_by |-> m[n].uploaded_by,
       last_modified_by |-> m[n].last_modified_by] : n \in DOMAIN m }

list_files_stat_first(d, m) ==
    { [name |-> n,
       created_at |-> d[n].ctime,
       modified_at |-> d[n].mtime,
       uploaded_by |-> IF n \in DOMAIN m THEN m[n].uploaded_by ELSE "unknown",
       last_modified_by |->
           IF n \in DOMAIN m THEN m[n].last_modified_by ELSE "unknown"] :
      n \in (DOMAIN d) \ {MetadataName} }

(* One entry per regular file other than metadata.json; the order of       *)
(* iterdir is unspecified, so the listing is the set of its entries.       *)
list_files(d, m) ==
    { [name |-> n,
       created_at |-> IF n \in DOMAIN m THEN m[n].created_at ELSE d[n].ctime,
       modified_at |-> IF n \in DOMAIN m THEN m[n].modified_at ELSE d[n].mtime,
       uploaded_by |-> IF n \in DOMAIN m THEN m[n].uploaded_by ELSE "unknown",
       last_modified_by |->
           IF n \in DOMAIN m THEN m[n].last_modified_by ELSE "unknown"] :
      n \in (DOMAIN d) \ {MetadataName} }

(* A local folder is the sequence of its regular files, <<name, content>>, *)
(* in the order iterdir yields them; NoFolder is a path that is missing or *)
(* is not a directory.                                                     *)
NoFolder == <<<<NoName, "">>>>

RECURSIVE sync_files(_, _, _, _)
sync_files(s, username, entries, synced_files) ==
    IF entries = <<>>
    THEN [dir |-> s.dir, metadata |-> s.metadata, clock |-> s.clock,
          files |-> synced_files]
    ELSE LET saved == save_file(s, username, Head(entries)[2], Head(entries)[1])
         IN  sync_files(Store(saved.dir, saved.metadata, saved.clock), username,
                        Tail(entries),
                        IF saved.ok THEN Append(synced_files, saved.name)
                        ELSE synced_files)

LocalFolderMissing == "Local folder does not exist"

Synced(synced_files) ==
    "Synced " \o ToString(Len(synced_files)) \o " files"

sync_folder_of_missing(s, username, local_folder) ==
    LET entries == IF local_folder = NoFolder THEN <<>> ELSE local_folder
        done == sync_files(s, username, entries, <<>>)
    IN  done @@ [status |-> "success", message |-> Synced(done.files)]

sync_folder(s, username, local_folder) ==
    IF local_folder = NoFolder
    THEN [dir |-> s.dir, metadata |-> s.metadata, clock |-> s.clock,
          status |-> "error", message |-> LocalFolderMissing, files |-> <<>>]
    ELSE LET done == sync_files(s, username, local_folder, <<>>)
         IN  done @@ [status |-> "success", message |-> Synced(done.files)]

----------------------------------------------------------------------------
(* The same operations when _save_metadata raises.  `left` is what the     *)
(* failed write leaves of metadata.json: "kept" when open() itself raised  *)
(* and the file is as it was, "torn" when open(..., 'w') had truncated the *)
(* file before the write raised.  The assignments to self.metadata that    *)
(* precede the call have happened; the except clause returns the failure.  *)

Leaves == {"kept", "torn"}

_save_metadata_raising(d, left, t) ==
    IF left = "torn" THEN WriteFile(d, MetadataName, Bytes(""), t) ELSE d

save_file_rolled_back(s, username, file_content, filename, left) ==
    [dir |-> s.dir, metadata |-> s.metadata, clock |-> s.clock + 1,
     ok |-> FALSE, name |-> NoName]

save_file_unsaved(s, username, file_content, filename, left) ==
    LET actual_filename == _get_unique_filename(s.dir, filename)
        now == s.clock + 1
        written == WriteFile(s.dir, actual_filename, Bytes(file_content), now)
        meta == Put(s.metadata, actual_filename,
                    FileRecord(username, username, now, now))
    IN  [dir |-> _save_metadata_raising(written, left, now), metadata |-> meta,
         clock |-> now, ok |-> FALSE, name |-> NoName]

(* for a file that exists and has a record *)
update_file_content_unsaved(s, username, filename, file_content, left) ==
    LET now == s.clock + 1
        written == WriteFile(s.dir, filename, Bytes(file_content), now)
        meta == [s.metadata EXCEPT ![filename].last_modified_by = username,
                                   ![filename].modified_at = now]
    IN  [dir |-> _save_metadata_raising(written, left, now), metadata |-> meta,
         clock |-> now, ok |-> FALSE]

(* str(e) of the exception that _save_metadata raised *)
WriteFailed == "metadata.json could not be written"

(* for a file that exists and has a record, and a new name that is free *)
rename_file_unsaved(s, old_filename, new_filename_base, username, left) ==
    LET extension == suffix(old_filename)
        new_filename == new_filename_base \o extension
        now == s.clock + 1
        moved == MoveFile(s.dir, old_filename, new_filename, now)
        file_meta == [s.metadata[old_filename] EXCEPT
                          !.last_modified_by = username,
                          !.modified_at = now]
        meta == Put(Drop(s.metadata, old_filename), new_filename, file_meta)
    IN  [dir |-> _save_metadata_raising(moved, left, now), metadata |-> meta,
         clock |-> now, ok |-> FALSE, name |-> NoName, msg |-> WriteFailed]

(* for a file that exists and has a record *)
delete_file_unsaved(s, filename, left) ==
    [dir |-> _save_metadata_raising(Drop(s.dir, filename), left, s.clock + 1),
     metadata |-> Drop(s.metadata, filename), ok |-> FALSE]

----------------------------------------------------------------------------
(* The same operations when a system call on a file raises OSError.  For   *)
(* a write, `left` is what the failed call leaves of the file: "kept" when *)
(* open() raised, "torn" when open(..., 'wb') had created or truncated the *)
(* file before write() raised.  Every method but list_files has the call   *)
(* inside try ... except Exception.                                        *)

(* str(e) of the OSError *)
OSError == "OSError"

save_file_failing(s, username, file_content, filename, left) ==
    LET actual_filename == _get_unique_filename(s.dir, filename)
    IN  [dir |-> IF left = "torn"
                 THEN WriteFile(s.dir, actual_filename, Bytes(""), s.clock + 1)
                 ELSE s.dir,
         metadata |-> s.metadata, ok |-> FALSE, name |-> NoName,
         raised |-> FALSE]

(* for a file that exists *)
update_file_content_failing(s, username, filename, file_content, left) ==
    [dir |-> IF left = "torn"
             THEN WriteFile(s.dir, filename, Bytes(""), s.clock + 1)
             ELSE s.dir,
     metadata |-> s.metadata, ok |-> FALSE, raised |-> FALSE]

(* for a file that exists and a new name that is free: os.rename raises *)
rename_file_failing(s, old_filename, new_filename_base, username) ==
    [dir |-> s.dir, metadata |-> s.metadata, ok |-> FALSE, name |-> NoName,
     msg |-> OSError, raised |-> FALSE]

(* for a file that exists: unlink raises *)
delete_file_failing(s, filename) ==
    [dir |-> s.dir, metadata |-> s.metadata, ok |-> FALSE, raised |-> FALSE]

(* for a file that exists: open or read raises *)
get_file_content_failing(d, filename) ==
    [content |-> None, ok |-> FALSE, raised |-> FALSE]

(* iterdir or stat raises, and list_files has no handler: the exception    *)
(* leaves the method                                                       *)
list_files_failing(d, m) == [ok |-> FALSE, raised |-> TRUE]

(* for a local folder that exists: reading its i-th file raises (or, with  *)
(* i = 1 on an empty folder, iterdir does); the files before it have been  *)
(* saved, and the handler returns the error report without their names     *)
sync_folder_failing(s, username, local_folder, i) ==
    LET done == sync_files(s, username, SubSeq(local_folder, 1, i - 1), <<>>)
    IN  [dir |-> done.dir, metadata |-> done.metadata, clock |-> done.clock,
         status |-> "error", message |-> OSError, files |-> <<>>,
         raised |-> FALSE]

----------------------------------------------------------------------------
(* SimpleDatabase (backend/database.py): the users table is the set of its *)
(* rows.  hexdigest of sha256 is a function of the password, taken to give *)
(* different digests for the different passwords of the model.             *)

Passwords == {"p", "q"}

sha256(password) == <<"sha256", password>>

NoRow == [id |-> 0, username |-> "", password |-> <<>>, created_at |-> 0]

get_user(rows, username) ==
    IF \E r \in rows : r.username = username
    THEN CHOOSE r \in rows : r.username = username
    ELSE NoRow

(* INSERT INTO users without the UNIQUE constraint on username *)
insert_duplicating(rows, username, hashed_password, created_at) ==
    [raised |-> FALSE,
     rows |-> rows \cup {[id |-> Cardinality(rows) + 1,
                          username |-> username,
                          password |-> hashed_password,
                          created_at |-> created_at]}]

(* INSERT INTO users: username is UNIQUE, id counts the rows inserted *)
insert(rows, username, hashed_password, created_at) ==
    IF \E r \in rows : r.username = username
    THEN [raised |-> TRUE, rows |-> rows]
    ELSE [raised |-> FALSE,
          rows |-> rows \cup {[id |-> Cardinality(rows) + 1,
                               username |-> username,
                               password |-> hashed_password,
                               created_at |-> created_at]}]

authenticate_user_by_name(rows, username, password) ==
    get_user(rows, username) # NoRow

authenticate_user(rows, username, password) ==
    LET user == get_user(rows, username)
    IN  IF user = NoRow THEN FALSE
        ELSE user.password = sha256(password)

----------------------------------------------------------------------------
(* The calls.  `last` holds what the latest call returned.  Calls happen   *)
(* one after the other, each at a later instant of the wall clock: a call  *)
(* that reads the time leaves the clock at its reading, any other call     *)
(* just lets one instant pass.  MaxClock bounds the instants.              *)

Here == Store(dir, metadata, clock)

After(c) == IF c > clock THEN c ELSE clock + 1

Call(op) ==
    [op |-> op, ok |-> TRUE, ret |-> NoName, content |-> None, msg |-> "",
     files |-> <<>>, raised |-> FALSE]

(* The calls in flight, one per thread of the server, and the rows of the *)
(* users table; the calls above run one at a time and leave both alone.    *)
Threads == {"t1", "t2"}

Idle == [pc |-> "idle", op |-> "", username |-> "", arg |-> "",
         filename |-> NoName, actual |-> NoName, now |-> 0, ok |-> FALSE,
         name |-> NoName]

NoCalls == [t \in Threads |-> Idle]

NoUsers == {}

TargetNames == ReqNames \cup {NameA1T} \cup DOMAIN dir \cup DOMAIN metadata

Save(u, p, n) ==
    /\ clock < MaxClock
    /\ LET r == save_file(Here, u, p, n)
       IN  /\ dir' = r.dir
           /\ metadata' = r.metadata
           /\ clock' = After(r.clock)
           /\ last' = [Call("save") EXCEPT !.ok = r.ok, !.ret = r.name]
    /\ UNCHANGED <<calls, users>>

Update(u, n, p) ==
    /\ clock < MaxClock
    /\ LET r == update_file_content(Here, u, n, p)
       IN  /\ dir' = r.dir
           /\ metadata' = r.metadata
           /\ clock' = After(r.clock)
           /\ last' = [Call("update") EXCEPT !.ok = r.ok]
    /\ UNCHANGED <<calls, users>>

Rename(old, base, u) ==
    /\ clock < MaxClock
    /\ LET r == rename_file(Here, old, base, u)
       IN  /\ dir' = r.dir
           /\ metadata' = r.metadata
           /\ clock' = After(r.clock)
           /\ last' = [Call("rename") EXCEPT
                           !.ok = r.ok, !.ret = r.name, !.msg = r.msg]
    /\ UNCHANGED <<calls, users>>

Delete(n) ==
    /\ clock < MaxClock
    /\ LET r == delete_file(Here, n)
       IN  /\ dir' = r.dir
           /\ metadata' = r.metadata
           /\ clock' = After(clock)
           /\ last' = [Call("delete") EXCEPT !.ok = r.ok]
    /\ UNCHANGED <<calls, users>>

Read(n) ==
    /\ clock < MaxClock
    /\ clock' = After(clock)
    /\ last' = [Call("read") EXCEPT
                    !.content = get_file_content(dir, n),
                    !.ok = exists(dir, n)]
    /\ UNCHANGED <<dir, metadata>>
    /\ UNCHANGED <<calls, users>>

SaveUnsaved(u, p, n, left) ==
    /\ clock < MaxClock
    /\ LET r == save_file_unsaved(Here, u, p, n, left)
       IN  /\ dir' = r.dir
           /\ metadata' = r.metadata
           /\ clock' = After(r.clock)
           /\ last' = [Call("save") EXCEPT !.ok = r.ok, !.ret = r.name]
    /\ UNCHANGED <<calls, users>>

UpdateUnsaved(u, n, p, left) ==
    /\ clock < MaxClock
    /\ exists(dir, n)
    /\ n \in DOMAIN metadata
    /\ LET r == update_file_content_unsaved(Here, u, n, p, left)
       IN  /\ dir' = r.dir
           /\ metadata' = r.metadata
           /\ clock' = After(r.clock)
           /\ last' = [Call("update") EXCEPT !.ok = r.ok]
    /\ UNCHANGED <<calls, users>>

RenameUnsaved(old, base, u, left) ==
    /\ clock < MaxClock
    /\ exists(dir, old)
    /\ base \o suffix(old) # old
    /\ ~exists(dir, base \o suffix(old))
    /\ old \in DOMAIN metadata
    /\ LET r == rename_file_unsaved(Here, old, base, u, left)
       IN  /\ dir' = r.dir
           /\ metadata' = r.metadata
           /\ clock' = After(r.clock)
           /\ last' = [Call("rename") EXCEPT
                           !.ok = r.ok, !.ret = r.name, !.msg = r.msg]
    /\ UNCHANGED <<calls, users>>

DeleteUnsaved(n, left) ==
    /\ clock < MaxClock
    /\ exists(dir, n)
    /\ n \in DOMAIN metadata
    /\ LET r == delete_file_unsaved(Here, n, left)
       IN  /\ dir' = r.dir
           /\ metadata' = r.metadata
           /\ clock' = After(clock)
           /\ last' = [Call("delete") EXCEPT !.ok = r.ok]
    /\ UNCHANGED <<calls, users>>

SaveFailing(u, p, n, left) ==
    /\ clock < MaxClock
    /\ LET r == save_file_failing(Here, u, p, n, left)
       IN  /\ dir' = r.dir
           /\ metadata' = r.metadata
           /\ clock' = After(clock)
           /\ last' = [Call("save") EXCEPT
                           !.ok = r.ok, !.ret = r.name, !.raised = r.raised]
    /\ UNCHANGED <<calls, users>>

UpdateFailing(u, n, p, left) ==
    /\ clock < MaxClock
    /\ exists(dir, n)
    /\ LET r == update_file_content_failing(Here, u, n, p, left)
       IN  /\ dir' = r.dir
           /\ metadata' = r.metadata
           /\ clock' = After(clock)
           /\ last' = [Call("update") EXCEPT !.ok = r.ok, !.raised = r.raised]
    /\ UNCHANGED <<calls, users>>

RenameFailing(old, base, u) ==
    /\ clock < MaxClock
    /\ exists(dir, old)
    /\ base \o suffix(old) # old
    /\ ~exists(dir, base \o suffix(old))
    /\ LET r == rename_file_failing(Here, old, base, u)
       IN  /\ dir' = r.dir
           /\ metadata' = r.metadata
           /\ clock' = After(clock)
           /\ last' = [Call("rename") EXCEPT
                           !.ok = r.ok, !.ret = r.name, !.msg = r.msg,
                           !.raised = r.raised]
    /\ UNCHANGED <<calls, users>>

DeleteFailing(n) ==
    /\ clock < MaxClock
    /\ exists(dir, n)
    /\ LET r == delete_file_failing(Here, n)
       IN  /\ dir' = r.dir
           /\ metadata' = r.metadata
           /\ clock' = After(clock)
           /\ last' = [Call("delete") EXCEPT !.ok = r.ok, !.raised = r.raised]
    /\ UNCHANGED <<calls, users>>

ReadFailing(n) ==
    /\ clock < MaxClock
    /\ exists(dir, n)
    /\ LET r == get_file_content_failing(dir, n)
       IN  /\ clock' = After(clock)
           /\ last' = [Call("read") EXCEPT
                           !.content = r.content, !.ok = r.ok,
                           !.raised = r.raised]
    /\ UNCHANGED <<dir, metadata, calls, users>>

ListFailing ==
    /\ clock < MaxClock
    /\ LET r == list_files_failing(dir, metadata)
       IN  /\ clock' = After(clock)
           /\ last' = [Call("list") EXCEPT !.ok = r.ok, !.raised = r.raised]
    /\ UNCHANGED <<dir, metadata, calls, users>>

(* save_file in two steps of a thread: the choice of a free name, and the *)
(* rest of the method.  Several threads call the one FileManager.          *)
InFlight == { t \in Threads : calls[t].pc = "write" }

SaveChoose(t, u, p, n) ==
    /\ calls[t].pc \in {"idle", "done"}
    /\ clock + Cardinality(InFlight) < MaxClock
    /\ calls' = [calls EXCEPT ![t] =
                     [Idle EXCEPT !.pc = "write", !.op = "save",
                                  !.username = u, !.arg = p, !.filename = n,
                                  !.actual = _get_unique_filename(dir, n)]]
    /\ UNCHANGED <<dir, metadata, clock, last, users>>

SaveWrite(t) ==
    /\ calls[t].pc = "write"
    /\ calls[t].op = "save"
    /\ LET r == save_file_write(Here, calls[t].username, calls[t].arg,
                                calls[t].actual)
       IN  /\ dir' = r.dir
           /\ metadata' = r.metadata
           /\ clock' = After(r.clock)
           /\ last' = [Call("save") EXCEPT !.ok = r.ok, !.ret = r.name]
           /\ calls' = [calls EXCEPT ![t].pc = "done", ![t].ok = r.ok,
                                     ![t].name = r.name]
    /\ UNCHANGED users

(* create_user in two steps of a thread: the check of get_user with the   *)
(* reading of the time, and the INSERT with its commit.                    *)
CreateCheck(t, username, password) ==
    /\ calls[t].pc \in {"idle", "done"}
    /\ clock < MaxClock
    /\ clock' = clock + 1
    /\ IF get_user(users, username) # NoRow
       THEN /\ calls' = [calls EXCEPT ![t] =
                            [Idle EXCEPT !.pc = "done", !.op = "create",
                                         !.username = username,
                                         !.arg = password, !.ok = FALSE]]
            /\ last' = [Call("create") EXCEPT !.ok = FALSE]
       ELSE /\ calls' = [calls EXCEPT ![t] =
                            [Idle EXCEPT !.pc = "insert", !.op = "create",
                                         !.username = username,
                                         !.arg = password,
                                         !.now = clock + 1]]
            /\ last' = last
    /\ UNCHANGED <<dir, metadata, users>>

CreateInsert(t) ==
    /\ calls[t].pc = "insert"
    /\ LET r == insert(users, calls[t].username, sha256(calls[t].arg),
                       calls[t].now)
       IN  /\ users' = r.rows
           /\ calls' = [calls EXCEPT ![t].pc = "done", ![t].ok = ~r.raised]
           /\ last' = [Call("create") EXCEPT !.ok = ~r.raised]
    /\ UNCHANGED <<dir, metadata, clock>>

Authenticate(username, password) ==
    /\ clock < MaxClock
    /\ clock' = After(clock)
    /\ last' = [Call("authenticate") EXCEPT
                    !.ok = authenticate_user(users, username, password)]
    /\ UNCHANGED <<dir, metadata, calls, users>>

LocalFolders ==
    { NoFolder,
      <<>>,
      <<<<NameA, "x">>>>,
      <<<<NameAT, "">>, <<NameA1T, "x">>>>,
      <<<<NameA1T, "x">>, <<NameAT, "">>>>,
      <<<<MetadataName, "x">>>> }

Sync(u, folder) ==
    /\ clock < MaxClock
    /\ folder # NoFolder => clock + Len(folder) <= MaxClock
    /\ LET r == sync_folder(Here, u, folder)
       IN  /\ dir' = r.dir
           /\ metadata' = r.metadata
           /\ clock' = After(r.clock)
           /\ last' = [Call("sync") EXCEPT
                           !.ok = (r.status = "success"),
                           !.msg = r.message, !.files = r.files]
    /\ UNCHANGED <<calls, users>>

SyncFailing(u, folder, i) ==
    /\ clock < MaxClock
    /\ folder # NoFolder
    /\ i \in 1 .. (IF folder = <<>> THEN 1 ELSE Len(folder))
    /\ clock + i <= MaxClock
    /\ LET r == sync_folder_failing(Here, u, folder, i)
       IN  /\ dir' = r.dir
           /\ metadata' = r.metadata
           /\ clock' = After(r.clock)
           /\ last' = [Call("sync") EXCEPT
                           !.ok = (r.status = "success"),
                           !.msg = r.message, !.files = r.files,
                           !.raised = r.raised]
    /\ UNCHANGED <<calls, users>>

----------------------------------------------------------------------------
(* FileManager(base_dir): the directory may already hold files and a       *)
(* metadata document (mkdir(exist_ok=True)); the mapping is whatever the   *)
(* document holds.  StartDirs: a new directory, and one left by an earlier *)
(* run in which a.t lost its record and "a (1).t" lost its file.           *)

OldRecord == FileRecord("alice", "alice", 0, 0)

EmptyDir == [n \in {} |-> 0]

OldDir ==
    WriteFile(WriteFile(EmptyDir, NameAT, Bytes("x"), 0),
              MetadataName, Json([k \in {NameA1T} |-> OldRecord]), 0)

StartDirs == {EmptyDir, OldDir}

Start(d) ==
    /\ dir = d
    /\ metadata = _load_metadata(d)
    /\ clock = 0
    /\ last = Call("init")
    /\ calls = NoCalls
    /\ users = NoUsers

Init == \E d \in StartDirs : Start(d)

InitEmpty == Start(EmptyDir)

Next ==
    \/ \E u \in Users, p \in Payloads, n \in ReqNames : Save(u, p, n)
    \/ \E u \in Users, n \in TargetNames, p \in Payloads : Update(u, n, p)
    \/ \E old \in TargetNames, base \in Bases, u \in Users : Rename(old, base, u)
    \/ \E n \in TargetNames : Delete(n)
    \/ \E n \in TargetNames : Read(n)
    \/ \E u \in Users, folder \in LocalFolders : Sync(u, folder)

Spec == Init /\ [][Next]_vars

SpecEmpty == InitEmpty /\ [][Next]_vars

(* The calls that change single files, and the same calls meeting a       *)
(* metadata.json that cannot be written; a behaviour is followed up to its *)
(* first failed call.                                                      *)
NextUnsaved ==
    \/ \E u \in Users, p \in Payloads, n \in ReqNames :
          last.ok /\ Save(u, p, n)
    \/ \E u \in Users, n \in TargetNames, p \in Payloads :
          last.ok /\ Update(u, n, p)
    \/ \E old \in TargetNames, base \in Bases, u \in Users :
          last.ok /\ Rename(old, base, u)
    \/ \E n \in TargetNames : last.ok /\ Delete(n)
    \/ \E u \in Users, p \in Payloads, n \in ReqNames, left \in Leaves :
          last.ok /\ SaveUnsaved(u, p, n, left)
    \/ \E u \in Users, n \in TargetNames, p \in Payloads, left \in Leaves :
          last.ok /\ UpdateUnsaved(u, n, p, left)
    \/ \E old \in TargetNames, base \in Bases, u \in Users, left \in Leaves :
          last.ok /\ RenameUnsaved(old, base, u, left)
    \/ \E n \in TargetNames, left \in Leaves :
          last.ok /\ DeleteUnsaved(n, left)

SpecUnsaved == Init /\ [][NextUnsaved]_vars

(* Saves, and the calls of every kind that meet a failing system call; a  *)
(* behaviour is followed up to its first failed call.                      *)
NextFailing ==
    \/ \E u \in Users, p \in Payloads, n \in ReqNames :
          last.ok /\ Save(u, p, n)
    \/ \E u \in Users, p \in Payloads, n \in ReqNames, left \in Leaves :
          last.ok /\ SaveFailing(u, p, n, left)
    \/ \E u \in Users, n \in TargetNames, p \in Payloads, left \in Leaves :
          last.ok /\ UpdateFailing(u, n, p, left)
    \/ \E old \in TargetNames, base \in Bases, u \in Users :
          last.ok /\ RenameFailing(old, base, u)
    \/ \E n \in TargetNames : last.ok /\ DeleteFailing(n)
    \/ \E n \in TargetNames : last.ok /\ ReadFailing(n)
    \/ last.ok /\ ListFailing
    \/ \E u \in Users, folder \in LocalFolders, i \in 1 .. 2 :
          last.ok /\ SyncFailing(u, folder, i)

SpecFailing == Init /\ [][NextFailing]_vars

(* Directories found at startup: a.t beside no metadata.json, or beside a *)
(* metadata.json that holds a mapping, nothing, text that is not JSON, or  *)
(* bytes that are not text.                                                *)
FoundDir == WriteFile(EmptyDir, NameAT, Bytes("x"), 0)

Documents ==
    { Json(NoMap), Json(Put(NoMap, NameAT, OldRecord)), Bytes(""),
      Bytes("x"), Bytes(NotText) }

FoundDirs ==
    {FoundDir} \cup
    { WriteFile(FoundDir, MetadataName, c, 0) : c \in Documents }

(* the construction of the store over the directory found *)
Open ==
    /\ last.op = "none"
    /\ LET r == __init__(dir)
       IN  /\ metadata' = r.metadata
           /\ last' = [Call("open") EXCEPT
                           !.ok = ~r.raised, !.raised = r.raised]
    /\ UNCHANGED <<dir, clock, calls, users>>

InitFound ==
    /\ dir \in FoundDirs
    /\ metadata = NoMap
    /\ clock = 0
    /\ last = Call("none")
    /\ calls = NoCalls
    /\ users = NoUsers

(* the calls follow a construction that has not raised *)
NextFound ==
    \/ Open
    \/ last.op # "none" /\ ~last.raised /\ Next

SpecFound == InitFound /\ [][NextFound]_vars

NextRace ==
    \/ \E t \in Threads, u \in Users, p \in Payloads, n \in ReqNames :
          SaveChoose(t, u, p, n)
    \/ \E t \in Threads : SaveWrite(t)

SpecRace == Init /\ [][NextRace]_vars

NextUsers ==
    \/ \E t \in Threads, username \in Users, password \in Passwords :
          CreateCheck(t, username, password)
    \/ \E t \in Threads : CreateInsert(t)
    \/ \E username \in Users, password \in Passwords :
          Authenticate(username, password)

SpecUsers == InitEmpty /\ [][NextUsers]_vars

(* A directory that holds the dot-file ".a" when the store is opened. *)
NameDotA == <<".", "a">>

DotDir == WriteFile(EmptyDir, NameDotA, Bytes("x"), 0)

InitNames == Start(DotDir)

SpecNames == InitNames /\ [][Next]_vars

----------------------------------------------------------------------------
(* Claims *)

StoreFiles(d) == DOMAIN d \ {MetadataName}

(* C1: starting from an empty store, after any sequence of completed       *)
(* calls the filenames that have a metadata record are exactly the files   *)
(* in the store directory, the metadata document excluded.                 *)
C1_RecordsMatchFiles == DOMAIN metadata = StoreFiles(dir)

(* C2: round trip: when save returns success with the actual filename n,   *)
(* reading n right afterwards returns exactly the payload saved.           *)
C2_RoundTrip ==
    [][last'.op = "save" =>
          \A u \in Users, p \in Payloads, n \in ReqNames :
              (Save(u, p, n) /\ last'.ok)
                  => get_file_content(dir', last'.ret) = Bytes(p)]_vars

(* "stem (k).ext" for the requested filename *)
Numbered(filename, k) ==
    stem(filename) \o <<" ", "(">> \o str(k) \o <<")">> \o suffix(filename)

NameA2T == <<"a", " ", "(", "2", ")", ".", "t">>

(* C3: collision naming: save returns the requested filename when no file  *)
(* of that name exists, otherwise "stem (k).ext" for the smallest k >= 1   *)
(* that names no existing file; k is at most the number of files (the scan *)
(* ends), and the returned name never names a file that existed before.    *)
C3_CollisionNaming ==
    [][last'.op = "save" =>
          \A u \in Users, p \in Payloads, n \in ReqNames :
              Save(u, p, n) =>
                  /\ last'.ret \notin DOMAIN dir
                  /\ n \notin DOMAIN dir => last'.ret = n
                  /\ n \in DOMAIN dir =>
                        \E k \in 1 .. Cardinality(DOMAIN dir) :
                            /\ last'.ret = Numbered(n, k)
                            /\ \A j \in 1 .. (k - 1) :
                                  Numbered(n, j) \in DOMAIN dir]_vars

C3_Witness ==
    /\ last.op = "save"
    /\ last.ret = NameA2T
    /\ {NameAT, NameA1T, NameA2T} \subseteq DOMAIN dir

SameRecord(m1, m2, f) ==
    /\ f \in DOMAIN m1 <=> f \in DOMAIN m2
    /\ f \in DOMAIN m1 => m1[f] = m2[f]

(* C4: save never overwrites: after a successful save every file that      *)
(* existed before still exists with the same content and the same record,  *)
(* and exactly one new filename has been added to the store.               *)
C4_SaveNeverOverwrites ==
    [][last'.op = "save" =>
          \A u \in Users, p \in Payloads, n \in ReqNames :
              (Save(u, p, n) /\ last'.ok) =>
                  /\ \A f \in StoreFiles(dir) :
                        /\ f \in StoreFiles(dir')
                        /\ dir'[f].content = dir[f].content
                        /\ SameRecord(metadata, metadata', f)
                  /\ Cardinality(StoreFiles(dir') \ StoreFiles(dir)) = 1]_vars

(* C5: a successful save creates a fresh record keyed by the actual stored *)
(* filename (not the requested one when they differ), with uploaded_by =   *)
(* last_modified_by = the uploader and created_at = modified_at = the time *)
(* of the call, replacing any record previously stored under that key.     *)
C5_SaveFreshRecord ==
    [][last'.op = "save" =>
          \A u \in Users, p \in Payloads, n \in ReqNames :
              (Save(u, p, n) /\ last'.ok) =>
                  /\ last'.ret \in DOMAIN metadata'
                  /\ metadata'[last'.ret].uploaded_by = u
                  /\ metadata'[last'.ret].last_modified_by = u
                  /\ metadata'[last'.ret].created_at
                         = metadata'[last'.ret].modified_at
                  /\ metadata'[last'.ret].created_at > clock
                  /\ last'.ret # n => SameRecord(metadata, metadata', n)]_vars

(* a.t existed, so the save was stored as "a (1).t", over the record that  *)
(* OldDir held under that key (alice, instant 0)                           *)
C5_Witness ==
    /\ last.op = "save"
    /\ last.ret = NameA1T
    /\ clock = 1
    /\ metadata[NameA1T] = FileRecord("bob", "bob", 1, 1)
    /\ NameAT \notin DOMAIN metadata

Kept(old, new) ==
    /\ new \in DOMAIN metadata'
    /\ metadata'[new].uploaded_by = metadata[old].uploaded_by
    /\ metadata'[new].created_at = metadata[old].created_at

Recorded == (DOMAIN dir) \cap (DOMAIN metadata)

(* C6: uploaded_by and created_at are immutable: across every update and   *)
(* every rename, by any editor and of any file, the record of a file keeps *)
(* its uploaded_by and created_at, under the file's new name when it is    *)
(* the file renamed.                                                       *)
C6_UploaderAndCreationImmutable ==
    [][/\ last'.op = "update" =>
            \A u \in Users, g \in TargetNames, p \in Payloads :
                Update(u, g, p) => \A f \in Recorded : Kept(f, f)
       /\ last'.op = "rename" =>
            \A g \in TargetNames, base \in Bases, u \in Users :
                Rename(g, base, u) =>
                    \A f \in Recorded :
                        Kept(f, IF g = f /\ last'.ok THEN last'.ret ELSE f)]_vars

(* saved by alice at instant 1, renamed by bob at instant 3 *)
C6_Witness ==
    /\ last.op = "rename"
    /\ last.ok
    /\ last.ret \in DOMAIN metadata
    /\ metadata[last.ret] = FileRecord("alice", "bob", 1, 3)

(* C7: update_content fails only when the named file does not exist: for   *)
(* every file in the store directory, with or without a record, it returns *)
(* success, the content becomes the new content and the listing shows the  *)
(* editor as last_modified_by.                                             *)
C7_UpdateSucceedsOnEveryFile ==
    [][last'.op = "update" =>
          \A u \in Users, n \in StoreFiles(dir), p \in Payloads :
              Update(u, n, p) =>
                  /\ last'.ok
                  /\ get_file_content(dir', n) = Bytes(p)
                  /\ \E e \in list_files(dir', metadata') :
                        e.name = n /\ e.last_modified_by = u]_vars

Unchanged == dir' = dir /\ metadata' = metadata

SameContents ==
    /\ DOMAIN dir' = DOMAIN dir
    /\ \A f \in DOMAIN dir : dir'[f].content = dir[f].content

(* C8: a save, update_content, rename or delete that returns failure       *)
(* leaves the directory (names and contents) and the metadata mapping as   *)
(* they were before the call.                                              *)
C8_FailureChangesNothing ==
    [][(last'.op \in {"save", "update", "rename", "delete"} /\ ~last'.ok)
          => (SameContents /\ metadata' = metadata)]_vars

(* C9: for a filename absent from the store directory, update_content and  *)
(* delete return false, rename returns false with a reason, read_content   *)
(* returns None, and no file and no record changes.                        *)
C9_NotFoundDeclined ==
    [][\A n \in TargetNames \ DOMAIN dir :
          /\ last'.op = "update" =>
                \A u \in Users, p \in Payloads :
                    Update(u, n, p) => (~last'.ok /\ Unchanged)
          /\ last'.op = "delete" =>
                (Delete(n) => (~last'.ok /\ Unchanged))
          /\ last'.op = "rename" =>
                \A base \in Bases, u \in Users :
                    Rename(n, base, u) =>
                        (~last'.ok /\ last'.msg = SourceNotFound /\ Unchanged)
          /\ last'.op = "read" =>
                (Read(n) => (~last'.ok /\ last'.content = None /\ Unchanged))]_vars

C9_Witness ==
    /\ last.op = "rename"
    /\ ~last.ok
    /\ last.msg = SourceNotFound
    /\ StoreFiles(dir) # {}

(* C10: rename conflict: when the source exists and new base + source      *)
(* extension differs from the old name and names an existing file, rename  *)
(* returns failure with a reason and both files keep their names, contents *)
(* and records.                                                            *)
C10_RenameConflict ==
    [][last'.op = "rename" =>
          \A old \in DOMAIN dir, base \in Bases, u \in Users :
              LET new == base \o suffix(old)
              IN  (new # old /\ new \in DOMAIN dir /\ Rename(old, base, u)) =>
                      /\ ~last'.ok
                      /\ last'.msg = NewNameExists
                      /\ \A f \in {old, new} :
                            /\ f \in DOMAIN dir'
                            /\ dir'[f] = dir[f]
                            /\ SameRecord(metadata, metadata', f)]_vars

C10_Witness ==
    /\ last.op = "rename"
    /\ ~last.ok
    /\ last.msg = NewNameExists
    /\ {NameAT, NameA1T} \subseteq DOMAIN metadata \cap DOMAIN dir

(* The text of a name from its last dot, empty when it has no dot. *)
FromLastDot(name) ==
    IF \E i \in 1 .. Len(name) : name[i] = "."
    THEN LET i == CHOOSE k \in 1 .. Len(name) :
                      /\ name[k] = "."
                      /\ \A j \in (k + 1) .. Len(name) : name[j] # "."
         IN  SubSeq(name, i, Len(name))
    ELSE <<>>

(* The extension as pathlib has it: a leading dot starts no extension. *)
Extension(name) == IF Head(name) = "." THEN FromLastDot(Tail(name))
                   ELSE FromLastDot(name)

(* C11 as stated: a successful rename returns new_base followed by the     *)
(* text of old_filename from its last dot (empty when it has none).        *)
C11_RenameKeepsTextFromLastDot ==
    [][last'.op = "rename" =>
          \A old \in DOMAIN dir, base \in Bases, u \in Users :
              (Rename(old, base, u) /\ last'.ok)
                  => last'.ret = base \o FromLastDot(old)]_vars

(* C11 amended: a successful rename returns new_base followed by the       *)
(* extension of old_filename, which is the text from its last dot unless   *)
(* that dot is the first character of the name, and empty otherwise.       *)
C11_RenameKeepsExtension ==
    [][last'.op = "rename" =>
          \A old \in DOMAIN dir, base \in Bases, u \in Users :
              (Rename(old, base, u) /\ last'.ok)
                  => last'.ret = base \o Extension(old)]_vars

(* ".a" renamed to base "a": the file is now "a" *)
C11_Witness ==
    /\ last.op = "rename"
    /\ last.ok
    /\ last.ret = NameA
    /\ NameDotA \notin DOMAIN dir
    /\ clock = 1

(* Every store file and record other than those named in `names` is as it *)
(* was.                                                                    *)
OthersUnchanged(names) ==
    /\ StoreFiles(dir') \ names = StoreFiles(dir) \ names
    /\ \A f \in StoreFiles(dir) \ names : dir'[f] = dir[f]
    /\ \A f \in (DOMAIN metadata \cup DOMAIN metadata') \ names :
          SameRecord(metadata, metadata', f)

(* C12: a successful rename of a recorded file to a different name moves   *)
(* file and record together: the old name is absent from the directory and *)
(* from the mapping, the new name holds the old content, its record keeps  *)
(* uploaded_by and created_at and names the editor as last_modified_by,    *)
(* and every other file and record is unchanged.                           *)
C12_RenameMovesFileAndRecord ==
    [][last'.op = "rename" =>
          \A old \in DOMAIN dir \cap DOMAIN metadata, base \in Bases,
             u \in Users :
              LET new == last'.ret
              IN  (Rename(old, base, u) /\ last'.ok /\ new # old) =>
                      /\ old \notin DOMAIN dir'
                      /\ old \notin DOMAIN metadata'
                      /\ new \in DOMAIN dir'
                      /\ dir'[new].content = dir[old].content
                      /\ new \in DOMAIN metadata'
                      /\ metadata'[new].uploaded_by = metadata[old].uploaded_by
                      /\ metadata'[new].created_at = metadata[old].created_at
                      /\ metadata'[new].last_modified_by = u
                      /\ OthersUnchanged({old, new})]_vars

(* C13: the rename of a file that has no record succeeds on disk and       *)
(* leaves the mapping as it was: no record appears under the new name.     *)
C13_RenameWithoutRecord ==
    [][last'.op = "rename" =>
          \A old \in DOMAIN dir \ DOMAIN metadata, base \in Bases,
             u \in Users :
              LET new == base \o suffix(old)
              IN  (Rename(old, base, u) /\ (new = old \/ new \notin DOMAIN dir))
                      => /\ last'.ok
                         /\ last'.ret = new
                         /\ new \in DOMAIN dir'
                         /\ dir'[new].content = dir[old].content
                         /\ new # old => old \notin DOMAIN dir'
                         /\ metadata' = metadata
                         /\ SameRecord(metadata, metadata', new)]_vars

(* a.t, which has no record, has been renamed to "a (1).t", a name under   *)
(* which the mapping holds the record of a file that is gone               *)
C13_Witness ==
    /\ last.op = "rename"
    /\ last.ok
    /\ last.ret = NameA1T
    /\ NameAT \notin DOMAIN dir
    /\ metadata = Put(NoMap, NameA1T, OldRecord)
    /\ dir[NameA1T].content = Bytes("x")

ListedNames(d, m) == { e.name : e \in list_files(d, m) }

(* C14: delete of any file present in the directory returns success, and   *)
(* afterwards the name is not listed, a read of it reports not-found, the  *)
(* mapping has no record for it, and every other file and record is        *)
(* unchanged.                                                              *)
C14_DeleteRemovesBoth ==
    [][last'.op = "delete" =>
          \A n \in DOMAIN dir :
              Delete(n) => /\ last'.ok
                           /\ n \notin ListedNames(dir', metadata')
                           /\ get_file_content(dir', n) = None
                           /\ n \notin DOMAIN metadata'
                           /\ OthersUnchanged({n})]_vars

(* C15: in every reachable state the listing has exactly one entry for    *)
(* each file of the directory other than metadata.json: a record without a *)
(* file is never listed, and neither is metadata.json.                     *)
C15_ListingFollowsDirectory ==
    LET listing == list_files(dir, metadata)
    IN  /\ ListedNames(dir, metadata) = DOMAIN dir \ {MetadataName}
        /\ \A e1, e2 \in listing : e1.name = e2.name => e1 = e2

(* the directory holds metadata.json, a file with a record and a file      *)
(* without one, and the mapping a record whose file is gone                *)
C15_Witness ==
    /\ MetadataName \in DOMAIN dir
    /\ \E f \in StoreFiles(dir) : f \in DOMAIN metadata
    /\ \E f \in StoreFiles(dir) : f \notin DOMAIN metadata
    /\ \E f \in DOMAIN metadata : f \notin DOMAIN dir
    /\ last.op = "save"

(* C16: a listed file that has a record is listed with the record's four   *)
(* fields; a listed file without a record is listed with "unknown" as      *)
(* uploaded_by and last_modified_by and with the timestamps of its file.   *)
C16_ListingMerge ==
    \A e \in list_files(dir, metadata) :
        /\ e.name \in DOMAIN dir
        /\ IF e.name \in DOMAIN metadata
           THEN LET file_meta == metadata[e.name]
                IN  /\ e.uploaded_by = file_meta.uploaded_by
                    /\ e.last_modified_by = file_meta.last_modified_by
                    /\ e.created_at = file_meta.created_at
                    /\ e.modified_at = file_meta.modified_at
           ELSE /\ e.uploaded_by = "unknown"
                /\ e.last_modified_by = "unknown"
                /\ e.created_at = dir[e.name].ctime
                /\ e.modified_at = dir[e.name].mtime

(* a file is listed with the times of its record, which are not the times  *)
(* of the file, beside a file listed as "unknown"                          *)
C16_Witness ==
    /\ \E e \in list_files(dir, metadata) :
          /\ e.name \in DOMAIN metadata
          /\ e.uploaded_by = "bob"
          /\ e.created_at # dir[e.name].ctime
    /\ \E e \in list_files(dir, metadata) :
          /\ e.name \notin DOMAIN metadata
          /\ e.uploaded_by = "unknown"
          /\ e.modified_at < clock

ReservedFolder == <<<<MetadataName, "x">>>>

(* C17: a sync of a local folder that holds a file named metadata.json     *)
(* stores no file derived from it, reports no name for it, and leaves      *)
(* metadata.json holding exactly the current mapping.                      *)
C17_SyncSkipsReservedName ==
    [][last'.op = "sync" =>
          \A u \in Users :
              Sync(u, ReservedFolder) =>
                  /\ last'.files = <<>>
                  /\ StoreFiles(dir') = StoreFiles(dir)
                  /\ MetadataName \in DOMAIN dir' =>
                         dir'[MetadataName].content = Json(metadata')]_vars

(* C18: a sync of a local folder with n files returns success with exactly *)
(* n names; the i-th is the name under which the i-th local file is now    *)
(* stored, with that file's content; it is the local name when that name   *)
(* was free, and "stem (k).ext" when the name was in the store or was      *)
(* taken earlier in the same sync; no file of the store is overwritten.    *)
C18_SyncUnderCollision ==
    [][last'.op = "sync" =>
          \A u \in Users, folder \in LocalFolders \ {NoFolder} :
              Sync(u, folder) =>
                  LET names == last'.files
                  IN  /\ last'.ok
                      /\ Len(names) = Len(folder)
                      /\ \A i, j \in 1 .. Len(names) :
                            names[i] = names[j] => i = j
                      /\ \A i \in 1 .. Len(names) :
                            LET local == folder[i][1]
                                taken == DOMAIN dir \cup
                                         { names[j] : j \in 1 .. (i - 1) }
                            IN  /\ names[i] \in StoreFiles(dir')
                                /\ names[i] \notin DOMAIN dir
                                /\ dir'[names[i]].content = Bytes(folder[i][2])
                                /\ IF local \in taken
                                   THEN \E k \in 1 .. Cardinality(taken) :
                                            names[i] = Numbered(local, k)
                                   ELSE names[i] = local
                      /\ \A f \in StoreFiles(dir) :
                            /\ f \in StoreFiles(dir')
                            /\ dir'[f].content = dir[f].content
                            /\ SameRecord(metadata, metadata', f)]_vars

(* C19: a sync from a path that does not exist or is not a directory      *)
(* returns an error report (status "error" with a message) and leaves      *)
(* files and mapping as they were.                                         *)
C19_SyncInvalidFolder ==
    [][last'.op = "sync" =>
          \A u \in Users :
              Sync(u, NoFolder) => /\ ~last'.ok
                                   /\ last'.msg = LocalFolderMissing
                                   /\ last'.files = <<>>
                                   /\ Unchanged]_vars

(* the error report has come back from a store that holds files *)
C19_Witness ==
    /\ last.op = "sync"
    /\ ~last.ok
    /\ last.msg = LocalFolderMissing
    /\ StoreFiles(dir) # {}
    /\ metadata # NoMap
    /\ clock = 2

FailingCall ==
    \/ \E u \in Users, p \in Payloads, n \in ReqNames, left \in Leaves :
          SaveFailing(u, p, n, left)
    \/ \E u \in Users, n \in DOMAIN dir, p \in Payloads, left \in Leaves :
          UpdateFailing(u, n, p, left)
    \/ \E old \in DOMAIN dir, base \in Bases, u \in Users :
          RenameFailing(old, base, u)
    \/ \E n \in DOMAIN dir : DeleteFailing(n) \/ ReadFailing(n)
    \/ ListFailing
    \/ \E u \in Users, folder \in LocalFolders, i \in 1 .. 2 :
          SyncFailing(u, folder, i)

(* C21: a call of save, update, rename, delete, read, list or sync whose   *)
(* underlying read, write, rename or stat fails returns a declined result  *)
(* to its caller; no exception leaves the operation.                       *)
C21_IOFailuresDeclined ==
    [][(~last'.ok /\ FailingCall) => ~last'.raised]_vars

(* C22: the construction of a store over a directory yields the mapping   *)
(* of metadata.json when the file is there and holds a mapping, and the    *)
(* empty mapping when it is absent or cannot be parsed, whatever the       *)
(* reason; it never raises and never changes the files.                    *)
C22_LoadAtStartup ==
    [][Open =>
          /\ ~last'.raised
          /\ dir' = dir
          /\ metadata' =
                 IF MetadataName \in DOMAIN dir
                    /\ dir[MetadataName].content.kind = "json"
                 THEN dir[MetadataName].content.map
                 ELSE NoMap]_vars

(* C23: the listing that user u obtains holds exactly the files that u    *)
(* saved, each with uploaded_by = u, and no file saved by another user.    *)
(* list_files takes no user: every user obtains list_files(dir, metadata). *)
C23_PerUserListing ==
    \A u \in Users :
        LET listing == list_files(dir, metadata)
        IN  /\ \A e \in listing : e.uploaded_by = u
            /\ \A f \in Recorded :
                  metadata[f].uploaded_by = u => f \in ListedNames(dir, metadata)

(* C24: after every save, update, rename or delete that returns success,  *)
(* metadata.json exists and holds exactly the mapping in memory, so that   *)
(* a store opened on the directory loads the same records.                 *)
C24_DocumentTracksMapping ==
    [][(last'.op \in {"save", "update", "rename", "delete"} /\ last'.ok) =>
          /\ MetadataName \in DOMAIN dir'
          /\ dir'[MetadataName].content = Json(metadata')
          /\ ~__init__(dir').raised
          /\ __init__(dir').metadata = metadata']_vars

(* C25: save, update, rename and delete called with "metadata.json" as the *)
(* filename never replace the content of metadata.json with the caller's   *)
(* payload, never remove the file and never move it to another name.       *)
C25_ReservedNameIsNoFile ==
    [][(/\ MetadataName \in DOMAIN dir
        /\ last'.op \in {"save", "update", "rename", "delete"}) =>
          \A u \in Users, p \in Payloads, base \in Bases :
              (\/ Save(u, p, MetadataName)
               \/ Update(u, MetadataName, p)
               \/ Rename(MetadataName, base, u)
               \/ Delete(MetadataName)) =>
                  /\ MetadataName \in DOMAIN dir'
                  /\ dir'[MetadataName].content.kind = "json"
                  /\ \A f \in DOMAIN dir' \ DOMAIN dir :
                        dir'[f].content # dir[MetadataName].content]_vars

(* C26: a save that starts when the saves before it have returned gets a  *)
(* name that none of them returned, and returns the name it chose; two     *)
(* saves that interleave between the choice of the name and the write can  *)
(* choose the same name, both return success with it, and leave only one   *)
(* of the two payloads stored (C26_Witness).                               *)
C26_SequentialSavesDistinct ==
    [][\A t \in Threads :
          /\ (calls[t].pc # "write" /\ calls'[t].pc = "write") =>
                \A o \in Threads :
                    (calls[o].pc = "done" /\ calls[o].ok)
                        => calls'[t].actual # calls[o].name
          /\ (calls[t].pc = "write" /\ calls'[t].pc = "done") =>
                /\ calls'[t].ok
                /\ calls'[t].name = calls[t].actual
                /\ dir'[calls'[t].name].content = Bytes(calls[t].arg)
                   \/ calls'[t].name = MetadataName]_vars

(* both threads were asked for a.t, chose a.t and returned success with   *)
(* a.t; the file holds the payload of one, the other payload is nowhere    *)
C26_Witness ==
    /\ \A t \in Threads : /\ calls[t].pc = "done"
                          /\ calls[t].ok
                          /\ calls[t].filename = NameAT
                          /\ calls[t].name = NameAT
    /\ calls["t1"].arg = "x"
    /\ calls["t2"].arg = ""
    /\ \A f \in DOMAIN dir : dir[f].content # Bytes("x")
    /\ dir[NameAT].content = Bytes("")

(* C27: a rename whose new base + extension is the old filename, for a    *)
(* file that exists, returns success with that filename and changes        *)
(* nothing: not the file, not its record, not metadata.json.               *)
C27_RenameToSameName ==
    [][last'.op = "rename" =>
          \A old \in DOMAIN dir, base \in Bases, u \in Users :
              (base \o Extension(old) = old /\ Rename(old, base, u)) =>
                  /\ last'.ok
                  /\ last'.ret = old
                  /\ dir' = dir
                  /\ metadata' = metadata]_vars

(* bob has renamed a.t, which alice saved, to a.t: the file is as old as   *)
(* it was and its record still names alice as the last editor              *)
C27_Witness ==
    /\ last.op = "rename"
    /\ last.ok
    /\ last.ret = NameAT
    /\ clock = 3
    /\ NameAT \in DOMAIN dir \cap DOMAIN metadata
    /\ dir[NameAT].ctime = 1
    /\ metadata[NameAT].modified_at = 1
    /\ metadata[NameAT].last_modified_by = "alice"
    /\ dir[MetadataName].mtime = 2

(* C28: after a successful rename to another name, a record under the new *)
(* filename is the record that was under the old filename before the call  *)
(* (with the editor and time of the rename), also when the mapping held a  *)
(* record without a file under the new filename.                           *)
C28_RenameNeverInheritsRecord ==
    [][last'.op = "rename" =>
          \A old \in StoreFiles(dir), base \in Bases, u \in Users :
              LET new == last'.ret
              IN  (Rename(old, base, u) /\ last'.ok /\ new # old
                   /\ new \in DOMAIN metadata') =>
                      /\ old \in DOMAIN metadata
                      /\ metadata'[new].uploaded_by = metadata[old].uploaded_by
                      /\ metadata'[new].created_at = metadata[old].created_at]_vars

Rows(rows, username) == { r \in rows : r.username = username }

(* the create_user calls that have returned True for the username *)
Created(username) ==
    { t \in Threads : /\ calls[t].op = "create"
                      /\ calls[t].pc = "done"
                      /\ calls[t].ok
                      /\ calls[t].username = username }

(* C29: create_user returns False when the username exists and leaves the *)
(* stored user as it was; of two calls for one username that both passed   *)
(* the check before either inserted, at most one returns True, and the     *)
(* table then has exactly one row for the username, with the password of   *)
(* the call that returned True.                                            *)
C29_UsernameUnique ==
    [][\A t \in Threads :
          (calls[t].pc # "done" /\ calls'[t].pc = "done"
           /\ calls'[t].op = "create") =>
              LET username == calls'[t].username
              IN  /\ Rows(users, username) # {} =>
                         /\ ~calls'[t].ok
                         /\ users' = users
                  /\ Rows(users, username) = {} =>
                         /\ calls'[t].ok
                         /\ \A r \in Rows(users', username) :
                               r.password = sha256(calls'[t].arg)
                  /\ Cardinality(Rows(users', username)) = 1
                  /\ \A o \in Threads \ {t} :
                        (calls'[o].op = "create" /\ calls'[o].pc = "done"
                         /\ calls'[o].username = username)
                            => ~(calls'[o].ok /\ calls'[t].ok)]_vars

(* both threads passed the check for alice with different passwords; t1   *)
(* inserted and returned True, t2 returned False; the one row is t1's      *)
C29_Witness ==
    /\ calls["t1"] = [Idle EXCEPT !.pc = "done", !.op = "create",
                                  !.username = "alice", !.arg = "p",
                                  !.now = 1, !.ok = TRUE]
    /\ calls["t2"] = [Idle EXCEPT !.pc = "done", !.op = "create",
                                  !.username = "alice", !.arg = "q",
                                  !.now = 2, !.ok = FALSE]
    /\ Cardinality(users) = 1
    /\ \A r \in users : r.username = "alice" /\ r.password = sha256("p")

(* C30: authenticate_user returns True exactly when the username has a    *)
(* row and the password is the one given to the create_user call that      *)
(* created it: from the step that creates the row on, and through every    *)
(* later call (rejected duplicates with other passwords included), the     *)
(* answer for every password is the same.                                  *)
C30_AuthenticateOriginalPassword ==
    [][/\ \A username \in Users, password \in Passwords :
             /\ Rows(users', username) = {} =>
                    ~authenticate_user(users', username, password)
             /\ Rows(users, username) # {} =>
                    authenticate_user(users', username, password)
                        = authenticate_user(users, username, password)
       /\ \A t \in Threads :
             (calls[t].pc = "insert" /\ calls'[t].pc = "done" /\ calls'[t].ok)
                 => \A password \in Passwords :
                        authenticate_user(users', calls[t].username, password)
                            = (password = calls[t].arg)
       /\ last'.op = "authenticate" =>
             \A username \in Users, password \in Passwords :
                 Authenticate(username, password) =>
                     \A t \in Created(username) :
                         last'.ok = (calls[t].arg = password)]_vars

(* alice was created with "p" by t1, t2's create_user("alice", "q") was   *)
(* rejected, and an authenticate_user call has since returned True         *)
C30_Witness ==
    /\ last.op = "authenticate"
    /\ last.ok
    /\ Created("alice") = {"t1"}
    /\ calls["t1"].arg = "p"
    /\ calls["t2"].op = "create" /\ calls["t2"].pc = "done"
    /\ ~calls["t2"].ok
    /\ calls["t2"].username = "alice" /\ calls["t2"].arg = "q"
    /\ \A r \in users : r.username = "alice"

====
